---- MODULE Spec2Model ----
(***************************************************************************)
(* pykep / keplerian_toolbox: Taylor-series propagator with J2 and         *)
(* constant thrust (core_functions/propagate_taylor_J2.hpp).               *)
(*                                                                         *)
(* Numbers: a C++ double is modelled as an integer count of 1/Unit         *)
(* (fixed point).  Sums and differences are exact, products and quotients  *)
(* are truncated to the grid.  Non-finite doubles are modelled only where  *)
(* the code produces them from finite data: a quotient by zero and the     *)
(* exponent 1./0 are +infinity, written Inf.                               *)
(***************************************************************************)
EXTENDS Integers, Sequences, FiniteSets, TLC

VARIABLES
    \* ---- propagate_taylor_J2: arguments ----
    r0, v0, m0,          \* in/out state: position, velocity, mass
    thrust,              \* argument u: constant thrust vector
    t0,                  \* requested signed duration
    mu, veff, J2RG2,     \* control scalars
    log10tolerance, log10rtolerance, max_iter, max_order,
    \* ---- propagate_taylor_J2: locals ----
    _x, _u,              \* coefficient tables (std::vector of arrays)
    step,                \* remaining duration
    xm, eps_m,           \* state norm; exponent of the selected tolerance
    j, order, h,
    pc,                  \* position in the function
    err,                 \* exception in flight ("" when none)
    \* ---- observation of one call (not program state) ----
    in0,                 \* state as passed in
    elapsed,             \* sum of the step lengths applied
    steps,               \* number of completed calls of the step function
    acc,                 \* table accesses of the last step function call
    was,                 \* values the last iteration started from
    \* ---- order selection applied to two tolerance settings ----
    ord,
    \* ---- the generator of propagate_taylor_J2_step, slot by slot ----
    gen,
    \* ---- a second call of propagate_taylor_J2 in the same process ----
    other,               \* the call that is not running now
    turn,                \* observation of the schedule of the two calls
    \* ---- sims_flanagan::leg_s ----
    leg,                 \* the data members of one leg_s object
    lrun,                \* the member function in progress and its locals
    \* ---- planet::keplerian ----
    kep                  \* the data members of one planet and the last call

vars == <<r0, v0, m0, thrust, t0, mu, veff, J2RG2, log10tolerance,
          log10rtolerance, max_iter, max_order, _x, _u, step, xm, eps_m,
          j, order, h, pc, err, in0, elapsed, steps, acc, was, ord, gen,
          other, turn, leg, lrun, kep>>

\* the variables that no statement of propagate_taylor_J2 can reach
rest == <<ord, gen, other, turn, leg, lrun, kep>>

args == <<thrust, t0, mu, veff, J2RG2, log10tolerance, log10rtolerance,
          max_iter, max_order, in0>>

----------------------------------------------------------------------------
(* Arithmetic of the fixed-point grid *)

Unit == 1000

Inf == 2000 * Unit

Abs(a) == IF a < 0 THEN -a ELSE a

Max(a, b) == IF a < b THEN b ELSE a

Min(a, b) == IF b < a THEN b ELSE a

\* quotient rounded toward zero
Trunc(a, b) ==
    IF (a < 0) = (b < 0) THEN Abs(a) \div Abs(b) ELSE -(Abs(a) \div Abs(b))

\* a * b; the product is formed in two parts so that it stays in range
FMul(a, b) ==
    LET s  == IF (a < 0) = (b < 0) THEN 1 ELSE -1
        aa == Abs(a)
        bb == Abs(b)
    IN  s * ((aa \div Unit) * bb + ((aa % Unit) * bb) \div Unit)

\* a / b; a finite value over zero is an infinity
FDiv(a, b) ==
    IF b = 0 THEN (IF a < 0 THEN -Inf ELSE Inf) ELSE Trunc(a * Unit, b)

\* ceil(a / b) for b > 0
CeilDiv(a, b) == -((-a) \div b)

RECURSIVE Pow10(_)
Pow10(k) == IF k <= 0 THEN 1 ELSE 10 * Pow10(k - 1)

RECURSIVE SumF(_, _)
SumF(f, k) == IF k < 0 THEN 0 ELSE f[k] + SumF(f, k - 1)

\* saturating fixed-point power r^k, k >= 1
RECURSIVE PowF(_, _)
PowF(r, k) ==
    IF k <= 1 THEN r
    ELSE LET p == PowF(r, k - 1)
         IN  IF p > Inf THEN p ELSE FMul(p, r)

\* largest r in lo..hi with r^k <= q (r^k is monotone in r >= 0)
RECURSIVE RootIn(_, _, _, _)
RootIn(lo, hi, q, k) ==
    IF lo >= hi THEN lo
    ELSE LET mid == (lo + hi + 1) \div 2
         IN  IF PowF(mid, k) <= q THEN RootIn(mid, hi, q, k)
             ELSE RootIn(lo, mid - 1, q, k)

RootHi == 46 * Unit

\* largest r in lo..hi with r * r <= q * Unit
RECURSIVE SqrtIn(_, _, _)
SqrtIn(lo, hi, q) ==
    IF lo >= hi THEN lo
    ELSE LET mid == (lo + hi + 1) \div 2
         IN  IF mid * mid <= q * Unit THEN SqrtIn(mid, hi, q)
             ELSE SqrtIn(lo, mid - 1, q)

\* sqrt(q) for q >= 0
Sqrt(q) == IF q >= Inf THEN RootHi ELSE SqrtIn(0, RootHi, q)

\* pow(q, 1./k) for q >= 0; k = 0 is the exponent 1./0 = +infinity
PowInv(q, k) ==
    IF k = 0 THEN (IF q < Unit THEN 0 ELSE IF q = Unit THEN Unit ELSE Inf)
    ELSE IF q >= Inf THEN Inf
    ELSE IF q = 0 THEN 0
    ELSE IF k = 1 THEN q
    ELSE IF k = 2 THEN Sqrt(q)
    ELSE RootIn(0, RootHi, q, k)

\* a / b for a > 0, b >= 0
Ratio(a, b) == IF b = 0 THEN Inf ELSE Min(Inf, FDiv(a, b))

----------------------------------------------------------------------------
(* Taylor coefficient generator: the while loop of propagate_taylor_J2_step *)

dumb == [k \in 0..6 |-> 0]

dumb2 == [k \in 0..33 |-> 0]

\* std::vector::assign(n, row)
Assign(n, row) == [i \in 0..(n - 1) |-> row]

Size(tab) == Cardinality(DOMAIN tab)

\* for (j = 0; j <= n; j++) ... u[j][s] * u[n - j][t]
Conv(u, n, s, t) ==
    SumF([jj \in 0..n |-> FMul(u[jj][s], u[n - jj][t])], n)

\* for (j = 0; j < n; ++j) u[n][t] += (c2[j] / 2) * u[n - j][s] * u[j][t];
\* u[n][t] /= n * u[0][s];     c2[j] is twice the coefficient of term j
Quot(u, n, s, t, c2) ==
    LET acc2 == SumF([jj \in 0..(n - 1) |->
                        c2[jj] * FMul(u[n - jj][s], u[jj][t])], n - 1)
    IN  FDiv(u[n][t] + Trunc(acc2, 2), n * u[0][s])

\* twice (alpha * n - j * (alpha + 1)) with alpha = -1.5
Alpha2(n) == [jj \in 0..(n - 1) |-> jj - 3 * n]

\* twice (beta * n - j * (beta + 1.)) with beta = -1.
Beta2(n) == [jj \in 0..(n - 1) |-> -2 * n]

\* variant of Slot: u[n][22] takes z^2/r^2 from slot 23, which is filled later
Slot_Ahead(x, u, n, k, T, gm, j2) ==
    CASE k \in 0..6 -> x[n][k]
      [] k = 7  -> u[n][7] + Conv(u, n, 0, 0)
      [] k = 8  -> u[n][8] + Conv(u, n, 1, 1)
      [] k = 9  -> u[n][9] + Conv(u, n, 2, 2)
      [] k = 10 -> u[n][7] + u[n][8]
      [] k = 11 -> u[n][10] + u[n][9]
      [] k = 12 -> IF n = 0
                   THEN Sqrt(FDiv(Unit, FMul(FMul(u[n][11], u[n][11]),
                                             u[n][11])))
                   ELSE Quot(u, n, 11, 12, Alpha2(n))
      [] k = 13 -> -FMul(u[n][12], gm)
      [] k = 14 -> u[n][14] + Conv(u, n, 0, 13)
      [] k = 15 -> u[n][15] + Conv(u, n, 1, 13)
      [] k = 16 -> u[n][16] + Conv(u, n, 2, 13)
      [] k = 17 -> IF n = 0 THEN FDiv(Unit, u[0][6])
                   ELSE Quot(u, n, 6, 17, Beta2(n))
      [] k = 18 -> IF n = 0 THEN Unit ELSE 0
      [] k = 19 -> IF n = 0 THEN FDiv(Unit, u[0][11])
                   ELSE Quot(u, n, 11, 19, Beta2(n))
      [] k = 20 -> FMul(Trunc(3 * j2, 2), u[n][19])
      [] k = 21 -> u[n][21] + Conv(u, n, 9, 19)
      [] k = 22 -> u[n][18] - 5 * u[n][23]
      [] k = 23 -> u[n][23] + Conv(u, n, 20, 22)
      [] k = 24 -> 3 * u[n][18] - 5 * u[n][21]
      [] k = 25 -> u[n][25] + Conv(u, n, 20, 24)
      [] k = 26 -> u[n][18] + u[n][23]
      [] k = 27 -> u[n][18] + u[n][25]
      [] k = 28 -> u[n][28] + Conv(u, n, 14, 26)
      [] k = 29 -> u[n][29] + Conv(u, n, 15, 26)
      [] k = 30 -> u[n][30] + Conv(u, n, 16, 27)
      [] k = 31 -> u[n][28] + FMul(u[n][17], T[1])
      [] k = 32 -> u[n][29] + FMul(u[n][17], T[2])
      [] k = 33 -> u[n][30] + FMul(u[n][17], T[3])

\* the value that lines 61-135 give to u[n][k]; the entries of row n below k
\* are computed already, the others hold what assign() left there
Slot(x, u, n, k, T, gm, j2) ==
    CASE k \in 0..6 -> x[n][k]
      [] k = 7  -> u[n][7] + Conv(u, n, 0, 0)
      [] k = 8  -> u[n][8] + Conv(u, n, 1, 1)
      [] k = 9  -> u[n][9] + Conv(u, n, 2, 2)
      [] k = 10 -> u[n][7] + u[n][8]
      [] k = 11 -> u[n][10] + u[n][9]
      [] k = 12 -> IF n = 0
                   THEN Sqrt(FDiv(Unit, FMul(FMul(u[n][11], u[n][11]),
                                             u[n][11])))
                   ELSE Quot(u, n, 11, 12, Alpha2(n))
      [] k = 13 -> -FMul(u[n][12], gm)
      [] k = 14 -> u[n][14] + Conv(u, n, 0, 13)
      [] k = 15 -> u[n][15] + Conv(u, n, 1, 13)
      [] k = 16 -> u[n][16] + Conv(u, n, 2, 13)
      [] k = 17 -> IF n = 0 THEN FDiv(Unit, u[0][6])
                   ELSE Quot(u, n, 6, 17, Beta2(n))
      [] k = 18 -> IF n = 0 THEN Unit ELSE 0
      [] k = 19 -> IF n = 0 THEN FDiv(Unit, u[0][11])
                   ELSE Quot(u, n, 11, 19, Beta2(n))
      [] k = 20 -> FMul(Trunc(3 * j2, 2), u[n][19])
      [] k = 21 -> u[n][21] + Conv(u, n, 9, 19)
      [] k = 22 -> u[n][18] - 5 * u[n][21]
      [] k = 23 -> u[n][23] + Conv(u, n, 20, 22)
      [] k = 24 -> 3 * u[n][18] - 5 * u[n][21]
      [] k = 25 -> u[n][25] + Conv(u, n, 20, 24)
      [] k = 26 -> u[n][18] + u[n][23]
      [] k = 27 -> u[n][18] + u[n][25]
      [] k = 28 -> u[n][28] + Conv(u, n, 14, 26)
      [] k = 29 -> u[n][29] + Conv(u, n, 15, 26)
      [] k = 30 -> u[n][30] + Conv(u, n, 16, 27)
      [] k = 31 -> u[n][28] + FMul(u[n][17], T[1])
      [] k = 32 -> u[n][29] + FMul(u[n][17], T[2])
      [] k = 33 -> u[n][30] + FMul(u[n][17], T[3])

\* lines 61-135 for one n: the entries of row n of u from k on, in order
RECURSIVE URow(_, _, _, _, _, _, _)
URow(x, u, n, k, T, gm, j2) ==
    IF k > 33 THEN u
    ELSE URow(x, [u EXCEPT ![n][k] = Slot(x, u, n, k, T, gm, j2)], n, k + 1,
              T, gm, j2)

\* sqrt(thrust[0]^2 + thrust[1]^2 + thrust[2]^2), line 59
SqrtT(T) == Sqrt(FMul(T[1], T[1]) + FMul(T[2], T[2]) + FMul(T[3], T[3]))

\* variant of Recip: the quotient is taken in integer arithmetic, 1 / (n + 1)
Recip_Int(n) == IF n = 0 THEN Unit ELSE 0

\* 1. / (n + 1), lines 138-143
Recip(n) == FDiv(Unit, (n + 1) * Unit)

\* variant of XRow: the mass coefficient with the sign lost
XRow_MassGain(u, n, T, ve) ==
    [k \in 0..6 |->
        IF k <= 2 THEN FMul(Recip(n), u[n][k + 3])
        ELSE IF k <= 5 THEN FMul(Recip(n), u[n][k + 28])
        ELSE IF n = 0 THEN FDiv(SqrtT(T), ve) ELSE 0]

\* variant of XRow: the mass flow is entered at every order
XRow_MassEvery(u, n, T, ve) ==
    [k \in 0..6 |->
        IF k <= 2 THEN FMul(Recip(n), u[n][k + 3])
        ELSE IF k <= 5 THEN FMul(Recip(n), u[n][k + 28])
        ELSE FDiv(-SqrtT(T), ve)]

\* row n + 1 of x, lines 138-144
XRow(u, n, T, ve) ==
    [k \in 0..6 |->
        IF k <= 2 THEN FMul(Recip(n), u[n][k + 3])
        ELSE IF k <= 5 THEN FMul(Recip(n), u[n][k + 28])
        ELSE IF n = 0 THEN FDiv(-SqrtT(T), ve) ELSE 0]

\* lines 138-145: row n + 1 of x from the finished row n of u
WithX(tab, n, T, ve) ==
    [x |-> [tab.x EXCEPT ![n + 1] = XRow(tab.u, n, T, ve)], u |-> tab.u]

\* one pass of the while loop body, lines 61-145
TaylorPass(tab, n, T, gm, ve, j2) ==
    WithX([x |-> tab.x, u |-> URow(tab.x, tab.u, n, 0, T, gm, j2)], n, T, ve)

\* while (n < order) { ... n++; }, lines 60-146
RECURSIVE Taylor(_, _, _, _, _, _, _)
Taylor(tab, n, N, T, gm, ve, j2) ==
    IF n >= N THEN tab
    ELSE Taylor(TaylorPass(tab, n, T, gm, ve, j2), n + 1, N, T, gm, ve, j2)

----------------------------------------------------------------------------
(* Step size and series sum: the rest of propagate_taylor_J2_step *)

\* M_E * M_E
E2 == 7389

\* variant of Norm: the mass component is left out
Norm_NoMass(row) ==
    LET a1 == Max(Abs(row[0]), Abs(row[1]))
        a2 == Max(a1, Abs(row[2]))
        a3 == Max(a2, Abs(row[3]))
        a4 == Max(a3, Abs(row[4]))
    IN  Max(a4, Abs(row[5]))

\* infinity norm of one row of x, lines 155-160, 163-168 and 251-256
Norm(row) ==
    LET a1 == Max(Abs(row[0]), Abs(row[1]))
        a2 == Max(a1, Abs(row[2]))
        a3 == Max(a2, Abs(row[3]))
        a4 == Max(a3, Abs(row[4]))
        a5 == Max(a4, Abs(row[5]))
    IN  Max(a5, Abs(row[6]))

\* eps_r * xm < eps_a, with eps_a = 10^ea and eps_r = 10^er
AbsRegime(xmm, ea, er) ==
    IF er >= ea THEN xmm < CeilDiv(Unit, Pow10(er - ea))
    ELSE xmm < Unit * Pow10(ea - er)

\* variant of RhoM: the two tolerances change places in the test
RhoM_TolSwapped(xm_n, xm_n1, n, xmm, ea, er) ==
    IF AbsRegime(xmm, er, ea)
    THEN Min(PowInv(Ratio(Unit, xm_n), n), PowInv(Ratio(Unit, xm_n1), n - 1))
    ELSE Min(PowInv(Ratio(xmm, xm_n), n), PowInv(Ratio(xmm, xm_n1), n - 1))

\* rho_m, lines 170-174
RhoM(xm_n, xm_n1, n, xmm, ea, er) ==
    IF AbsRegime(xmm, ea, er)
    THEN Min(PowInv(Ratio(Unit, xm_n), n), PowInv(Ratio(Unit, xm_n1), n - 1))
    ELSE Min(PowInv(Ratio(xmm, xm_n), n), PowInv(Ratio(xmm, xm_n1), n - 1))

\* variant of Clamp: the candidate keeps its positive sign
Clamp_NoSign(rho, hh) ==
    LET s1 == FDiv(rho, E2)
    IN  IF Abs(s1) > Abs(hh) THEN hh ELSE s1

\* variant of Clamp: the candidate is not limited to the remaining duration
Clamp_NoLimit(rho, hh) ==
    LET s1 == FDiv(rho, E2)
    IN  IF hh < 0 THEN -s1 ELSE s1

\* lines 175-178: the candidate, its sign, its clamp
Clamp(rho, hh) ==
    LET s1 == FDiv(rho, E2)
        s2 == IF hh < 0 THEN -s1 ELSE s1
    IN  IF Abs(s2) > Abs(hh) THEN hh ELSE s2

\* Horner's-Biscani loop, lines 181-190: for (j = 1; j <= order; ++j)
RECURSIVE Horner(_, _, _, _, _, _, _)
Horner(r, v, x, jj, N, steppow, st) ==
    IF jj > N THEN [r |-> r, v |-> v]
    ELSE Horner(<<r[1] + FMul(x[jj][0], steppow),
                  r[2] + FMul(x[jj][1], steppow),
                  r[3] + FMul(x[jj][2], steppow)>>,
                <<v[1] + FMul(x[jj][3], steppow),
                  v[2] + FMul(x[jj][4], steppow),
                  v[3] + FMul(x[jj][5], steppow)>>,
                x, jj + 1, N, FMul(steppow, st), st)

StateRow(r, v, m) ==
    LET row == <<r[1], r[2], r[3], v[1], v[2], v[3], m>>
    IN  [k \in 0..6 |-> row[k + 1]]

\* entries of x and of u that one call touches: x[0] (47-53), x[n] and
\* x[n + 1] in the loop, x[n] and x[n - 1] with n = order (155-168),
\* x[j] for j in 1..order (183-188), x[1] (191); u[n], u[j], u[n - j], u[0]
XTouched(N) ==
    {0} \cup {n : n \in 0..(N - 1)} \cup {n + 1 : n \in 0..(N - 1)}
        \cup {N, N - 1} \cup (1..N) \cup {1}

UTouched(N) ==
    UNION {{n, 0} \cup {jj : jj \in 0..n} \cup {n - jj : jj \in 0..n}
           : n \in 0..(N - 1)}

\* lines 191-192 and the values handed back to the caller
StepResult(rv, m, tab, st) ==
    [r0 |-> rv.r, v0 |-> rv.v, m0 |-> m + FMul(tab.x[1][6], st),
     step |-> st, x |-> tab.x, u |-> tab.u]

\* lines 181-192 for the step st
SeriesSum(r, v, m, N, tab, st) ==
    StepResult(Horner(r, v, tab.x, 1, N, st, st), m, tab, st)

\* lines 152-192 for the filled tables
StepAndSum(r, v, m, hh, N, xmm, ea, er, tab) ==
    SeriesSum(r, v, m, N, tab,
              Clamp(RhoM(Norm(tab.x[N]), Norm(tab.x[N - 1]), N, xmm, ea, er),
                    hh))

\* propagate_taylor_J2_step for order >= 1
propagate_taylor_J2_step(r, v, m, hh, N, T, gm, ve, j2, xmm, ea, er, x, u) ==
    StepAndSum(r, v, m, hh, N, xmm, ea, er,
               Taylor([x |-> [x EXCEPT ![0] = StateRow(r, v, m)], u |-> u],
                      0, N, T, gm, ve, j2))

----------------------------------------------------------------------------
(* propagate_taylor_J2 *)

Mega == 1000000

\* 0.5 * ln(10) in units of 1 / Mega
HalfLn10 == 1151293

\* variant of OrderOf: the sign of the logarithm term is lost
OrderOf_Plus(k) == CeilDiv(Mega + k * HalfLn10, Mega)

\* (int)(ceil(-0.5 * log(eps_m) + 1)) for eps_m = pow(10., k), line 260
OrderOf(k) == CeilDiv(Mega - k * HalfLn10, Mega)

\* (eps_r * xm < eps_a) ? eps_m = eps_a : eps_m = eps_r, line 259
EpsM(xmm, ea, er) == IF AbsRegime(xmm, ea, er) THEN ea ELSE er

\* variant of Exceeds: one order too many is let through
Exceeds_Late(N, mo) == N > mo + 1

\* variant of LimitHit: the last permitted iteration counts as one too many
LimitHit_Early(jj, mi) == jj > mi - 2

\* if (order > max_order), line 261
Exceeds(N, mo) == N > mo

\* if (j > max_iter - 1), line 273
LimitHit(jj, mi) == jj > mi - 1

\* the two messages handed to throw_value_error, lines 261 and 273
OrderMsg == "Polynomial order is too high....."

\* variant of IterMsg: both failures carry the same message
IterMsg_Same == "Polynomial order is too high....."

IterMsg == "Maximum number of iteration reached"

value_error(msg) == [type |-> "value_error", what |-> msg]

length_error == [type |-> "std::length_error", what |-> "vector"]

NoErr == [type |-> "", what |-> ""]

\* ---- inputs of the calls explored ----
MaxIter == 3

InMaxOrders == { 3, 3000 }

\* the highest order whose coefficients the grid carries for these inputs;
\* calls that would select a higher order are explored with a lower cap
GridOrder == 5

InStates ==
    { <<<<1000, 0, 0>>, <<0, 1000, 0>>, 1000>>,
      <<<<800, 0, 600>>, <<0, 900, 300>>, 1500>>,
      <<<<0, -700, 200>>, <<800, 0, -100>>, 900>>,
      <<<<9995, 0, 0>>, <<100, 0, 0>>, 1000>> }

InThrusts == { <<0, 0, 0>>, <<100, 0, 50>> }

InDurations == { 0, 100, -100, 300, -300, 3000 }

InTols == { <<-10, -10>>, <<-2, -2>>, <<-1, -2>>, <<-2, -1>>, <<0, -1>>,
            <<-1, 0>>, <<1, -1>>, <<2, -2>>, <<-1, 1>> }

InJ2 == { 0, 50 }

\* what an out-of-range read of a table can deliver
Garbage == { -Unit, Unit }

GarbageRho == { 0, 500, Inf }

Finished == {"returned", "OrderExceeded", "IterationLimitExceeded",
             "length_error", "crashed"}

NoOrd == <<>>

NoGen == <<>>

NoCtx == <<>>

NoTurn == <<>>

NoLeg == <<>>

NoRun == <<>>

NoKep == <<>>

\* entry of propagate_taylor_J2: lines 233-247 and the for-init j = 0
Init ==
    /\ \E s \in InStates : /\ r0 = s[1]
                            /\ v0 = s[2]
                            /\ m0 = s[3]
                            /\ in0 = [r0 |-> s[1], v0 |-> s[2], m0 |-> s[3]]
    /\ thrust \in InThrusts
    /\ t0 \in InDurations
    /\ mu = Unit
    /\ veff = Unit
    /\ J2RG2 \in InJ2
    /\ \E tl \in InTols : /\ log10tolerance = tl[1]
                          /\ log10rtolerance = tl[2]
    /\ max_iter \in (-1)..MaxIter
    /\ max_order \in InMaxOrders
    /\ OrderOf(Min(log10tolerance, log10rtolerance)) > GridOrder
          => max_order <= GridOrder
    /\ _x = Assign(0, dumb)
    /\ _u = Assign(0, dumb2)
    /\ step = t0
    /\ xm = 0
    /\ eps_m = 0
    /\ j = 0
    /\ order = 0
    /\ h = 0
    /\ pc = "for"
    /\ err = NoErr
    /\ elapsed = 0
    /\ steps = 0
    /\ acc = [x |-> {}, u |-> {}, xsize |-> 0, usize |-> 0]
    /\ was = [r0 |-> r0, v0 |-> v0, m0 |-> m0, step |-> t0]
    /\ ord = NoOrd
    /\ gen = NoGen
    /\ other = NoCtx
    /\ turn = NoTurn
    /\ leg = NoLeg
    /\ lrun = NoRun
    /\ kep = NoKep

\* variant of ForTest: the body runs once before the test, as in a do-while
ForTest_DoWhile ==
    /\ pc = "for"
    /\ pc' = IF j < max_iter \/ j = 0 THEN "select" ELSE "after"
    /\ UNCHANGED <<r0, v0, m0, args, _x, _u, step, xm, eps_m, j, order, h,
                   err, elapsed, steps, acc, was, rest>>

\* for (...; j < max_iter; ...), line 248
ForTest ==
    /\ pc = "for"
    /\ pc' = IF j < max_iter THEN "select" ELSE "after"
    /\ UNCHANGED <<r0, v0, m0, args, _x, _u, step, xm, eps_m, j, order, h,
                   err, elapsed, steps, acc, was, rest>>

\* lines 251-261: the norm, the tolerance, the order and its check
SelectOrder ==
    /\ pc = "select"
    /\ LET xmm == Norm(StateRow(r0, v0, m0))
           em  == EpsM(xmm, log10tolerance, log10rtolerance)
           N   == OrderOf(em)
       IN  /\ xm' = xmm
           /\ eps_m' = em
           /\ order' = N
           /\ IF Exceeds(N, max_order)
              THEN /\ pc' = "OrderExceeded"
                   /\ err' = value_error(OrderMsg)
              ELSE /\ pc' = "assign"
                   /\ err' = err
    /\ was' = [r0 |-> r0, v0 |-> v0, m0 |-> m0, step |-> step]
    /\ UNCHANGED <<r0, v0, m0, args, _x, _u, step, j, h, elapsed, steps,
                   acc, rest>>

\* variant of AssignTables: resize() in place of assign(), which keeps the
\* rows that the tables hold already
AssignTables_Resize ==
    /\ pc = "assign"
    /\ IF order + 1 < 0
       THEN /\ pc' = "length_error"
            /\ err' = length_error
            /\ UNCHANGED <<_x, _u>>
       ELSE IF order < 0
       THEN /\ pc' = "length_error"
            /\ err' = length_error
            /\ _x' = Assign(order + 1, dumb)
            /\ UNCHANGED _u
       ELSE /\ pc' = "call"
            /\ err' = err
            /\ _x' = [i \in 0..order |->
                        IF i \in DOMAIN _x THEN _x[i] ELSE dumb]
            /\ _u' = [i \in 0..(order - 1) |->
                        IF i \in DOMAIN _u THEN _u[i] ELSE dumb2]
    /\ UNCHANGED <<r0, v0, m0, args, step, xm, eps_m, j, order, h, elapsed,
                   steps, acc, was, rest>>

\* lines 264-265: a negative count converts to a size above max_size(), for
\* which std::vector::assign throws std::length_error
AssignTables ==
    /\ pc = "assign"
    /\ IF order + 1 < 0
       THEN /\ pc' = "length_error"
            /\ err' = length_error
            /\ UNCHANGED <<_x, _u>>
       ELSE IF order < 0
       THEN /\ pc' = "length_error"
            /\ err' = length_error
            /\ _x' = Assign(order + 1, dumb)
            /\ UNCHANGED _u
       ELSE /\ pc' = "call"
            /\ err' = err
            /\ _x' = Assign(order + 1, dumb)
            /\ _u' = Assign(order, dumb2)
    /\ UNCHANGED <<r0, v0, m0, args, step, xm, eps_m, j, order, h, elapsed,
                   steps, acc, was, rest>>

\* variant of AfterStep: the remaining duration is not reduced by the step
AfterStep_KeepRemaining(hh) ==
    /\ h' = hh
    /\ elapsed' = elapsed + hh
    /\ steps' = steps + 1
    /\ IF Abs(hh) >= Abs(step)
       THEN /\ pc' = "after"
            /\ UNCHANGED <<step, j>>
       ELSE /\ pc' = "for"
            /\ step' = step
            /\ j' = j + 1

\* lines 267-271, after the step function returned hh
AfterStep(hh) ==
    /\ h' = hh
    /\ elapsed' = elapsed + hh
    /\ steps' = steps + 1
    /\ IF Abs(hh) >= Abs(step)
       THEN /\ pc' = "after"
            /\ UNCHANGED <<step, j>>
       ELSE /\ pc' = "for"
            /\ step' = step - hh
            /\ j' = j + 1

\* line 266 with order >= 1, and lines 267-271
Step ==
    /\ pc = "call"
    /\ order >= 1
    /\ LET res == propagate_taylor_J2_step(r0, v0, m0, step, order, thrust,
                      mu, veff, J2RG2, xm, log10tolerance, log10rtolerance,
                      _x, _u)
       IN  /\ r0' = res.r0
           /\ v0' = res.v0
           /\ m0' = res.m0
           /\ _x' = res.x
           /\ _u' = res.u
           /\ AfterStep(res.step)
    /\ acc' = [x |-> XTouched(order), u |-> UTouched(order),
               xsize |-> Size(_x), usize |-> Size(_u)]
    /\ UNCHANGED <<args, xm, eps_m, order, err, was, rest>>

\* line 266 with order = 0: _x has one row and _u none; the step function
\* reads x[-1] (163-168) and x[1] (191), which do not exist.  The reads
\* deliver arbitrary values, or the process faults.
StepOutOfRange ==
    /\ pc = "call"
    /\ order < 1
    /\ acc' = [x |-> XTouched(order), u |-> UTouched(order),
               xsize |-> Size(_x), usize |-> Size(_u)]
    /\ \/ /\ pc' = "crashed"
          /\ UNCHANGED <<r0, v0, m0, _x, step, j, h, elapsed, steps>>
       \/ \E rho \in GarbageRho, g \in Garbage :
             LET st == Clamp(rho, step)
             IN  /\ _x' = [_x EXCEPT ![0] = StateRow(r0, v0, m0)]
                 /\ m0' = m0 + FMul(g, st)
                 /\ UNCHANGED <<r0, v0>>
                 /\ AfterStep(st)
    /\ UNCHANGED <<args, _u, xm, eps_m, order, err, was, rest>>

\* variant of AfterLoop: the state is put back before the error is raised
AfterLoop_Rollback ==
    /\ pc = "after"
    /\ IF LimitHit(j, max_iter)
       THEN /\ pc' = "IterationLimitExceeded"
            /\ err' = value_error(IterMsg)
            /\ r0' = in0.r0
            /\ v0' = in0.v0
            /\ m0' = in0.m0
       ELSE /\ pc' = "returned"
            /\ err' = err
            /\ UNCHANGED <<r0, v0, m0>>
    /\ UNCHANGED <<args, _x, _u, step, xm, eps_m, j, order, h,
                   elapsed, steps, acc, was, rest>>

\* line 273
AfterLoop ==
    /\ pc = "after"
    /\ IF LimitHit(j, max_iter)
       THEN /\ pc' = "IterationLimitExceeded"
            /\ err' = value_error(IterMsg)
       ELSE /\ pc' = "returned"
            /\ err' = err
    /\ UNCHANGED <<r0, v0, m0, args, _x, _u, step, xm, eps_m, j, order, h,
                   elapsed, steps, acc, was, rest>>

Next == ForTest \/ SelectOrder \/ AssignTables \/ Step \/ StepOutOfRange
            \/ AfterLoop

Spec == Init /\ [][Next]_vars

----------------------------------------------------------------------------
(* Order selection (lines 259-260) applied to two tolerance settings *)

SelOrder(xmm, ea, er) == OrderOf(EpsM(xmm, ea, er))

TolSpan == 3

OExps == (-TolSpan)..1

OXm == { 20, 1000, 50000 }

propvars == <<r0, v0, m0, args, _x, _u, step, xm, eps_m, j, order, h, pc,
              err, elapsed, steps, acc, was>>

\* no call of propagate_taylor_J2 in progress
PropIdle ==
    /\ r0 = <<Unit, 0, 0>>
    /\ v0 = <<0, Unit, 0>>
    /\ m0 = Unit
    /\ in0 = [r0 |-> r0, v0 |-> v0, m0 |-> m0]
    /\ thrust = <<0, 0, 0>>
    /\ t0 = 0
    /\ mu = Unit
    /\ veff = Unit
    /\ J2RG2 = 0
    /\ log10tolerance = -10
    /\ log10rtolerance = -10
    /\ max_iter = 0
    /\ max_order = 0
    /\ _x = Assign(0, dumb)
    /\ _u = Assign(0, dumb2)
    /\ step = 0
    /\ xm = 0
    /\ eps_m = 0
    /\ j = 0
    /\ order = 0
    /\ h = 0
    /\ pc = "idle"
    /\ err = NoErr
    /\ elapsed = 0
    /\ steps = 0
    /\ acc = [x |-> {}, u |-> {}, xsize |-> 0, usize |-> 0]
    /\ was = [r0 |-> r0, v0 |-> v0, m0 |-> m0, step |-> 0]

InitOrder ==
    /\ PropIdle
    /\ ord \in [pc : {"first"}, xm : OXm, abs : OExps, rel : OExps,
                 abs2 : OExps, rel2 : OExps, o1 : {0}, o2 : {0}]
    /\ gen = NoGen
    /\ other = NoCtx
    /\ turn = NoTurn
    /\ leg = NoLeg
    /\ lrun = NoRun
    /\ kep = NoKep

OrderFirst ==
    /\ ord.pc = "first"
    /\ ord' = [ord EXCEPT !.pc = "second",
                          !.o1 = SelOrder(ord.xm, ord.abs, ord.rel)]
    /\ UNCHANGED <<propvars, gen, other, turn, leg, lrun, kep>>

OrderSecond ==
    /\ ord.pc = "second"
    /\ ord' = [ord EXCEPT !.pc = "done",
                          !.o2 = SelOrder(ord.xm, ord.abs2, ord.rel2)]
    /\ UNCHANGED <<propvars, gen, other, turn, leg, lrun, kep>>

NextOrder == OrderFirst \/ OrderSecond

SpecOrder == InitOrder /\ [][NextOrder]_vars

----------------------------------------------------------------------------
(* Properties *)

Cur == [r0 |-> r0, v0 |-> v0, m0 |-> m0]

Running == {"for", "select", "assign", "call", "after"}

\* every table access of the last step function call was inside the tables
InRange ==
    /\ acc.x \subseteq 0..(acc.xsize - 1)
    /\ acc.u \subseteq 0..(acc.usize - 1)

\* C1: every call ends, after at most max_iter iterations of the step loop,
\* as success, OrderExceeded or IterationLimitExceeded, and on the way no
\* other error is raised and no table is accessed out of range.
C1_ThreeOutcomes ==
    /\ pc \in Running \cup {"returned", "OrderExceeded",
                             "IterationLimitExceeded"}
    /\ InRange
    /\ steps <= Max(max_iter, 0)
    /\ j <= Max(max_iter, 0)

\* C2: on success the step lengths applied sum to t0; a non-terminal step h
\* takes h off the remaining duration; the terminal step is the first with
\* |h| >= |remaining| and equals the remaining duration.
C2_StepsSumToDuration ==
    /\ pc \in {"for", "select", "assign", "call"} =>
          /\ step = t0 - elapsed
          /\ steps = j
    /\ (pc = "for" /\ steps >= 1) =>
          /\ Abs(h) < Abs(was.step)
          /\ step = was.step - h
    /\ pc = "returned" =>
          /\ elapsed = t0
          /\ h = step
          /\ steps = j + 1

C2_Witness == pc = "returned" /\ steps >= 2 /\ t0 < 0

\* C3: the step length returned is never longer than the remaining duration
\* and never of the opposite sign; the remaining duration keeps the sign of
\* t0 and never grows in magnitude.
C3_StepWithinRemaining ==
    /\ (steps >= 1 /\ pc \in {"for", "after", "returned",
                                "IterationLimitExceeded"}) =>
          /\ Abs(h) <= Abs(was.step)
          /\ (h > 0 => was.step > 0)
          /\ (h < 0 => was.step < 0)
          /\ Abs(step) <= Abs(was.step)
    /\ Abs(step) <= Abs(t0)
    /\ (step > 0 => t0 > 0)
    /\ (step < 0 => t0 < 0)

C3_Witness == pc = "for" /\ steps >= 2 /\ t0 < 0 /\ step < 0

\* C4 as stated: a call ends with IterationLimitExceeded exactly when the
\* remaining duration was not fully consumed.
C4_LimitIffNotConsumed ==
    pc \in {"returned", "IterationLimitExceeded"} =>
        ((pc = "IterationLimitExceeded") <=> (elapsed # t0))

\* C4 amended: IterationLimitExceeded is raised exactly when none of the
\* max_iter permitted iterations was terminal: with max_iter >= 1 the
\* remaining duration is then non-zero, with max_iter <= 0 no iteration ran
\* at all; a call whose terminal step is step number max_iter succeeds.
C4_LimitIffNoTerminalStep ==
    /\ pc = "IterationLimitExceeded" =>
          /\ steps = Max(max_iter, 0)
          /\ j = steps
          /\ step = t0 - elapsed
          /\ (max_iter >= 1 => (step # 0 /\ Abs(h) < Abs(was.step)))
    /\ pc = "returned" =>
          /\ steps <= max_iter
          /\ steps = j + 1
          /\ elapsed = t0
          /\ Abs(h) >= Abs(was.step)

C4_Witness == pc = "returned" /\ steps = max_iter /\ max_iter >= 2

\* C5: an iteration whose order exceeds max_order ends at once with
\* OrderExceeded, before the step function runs and with the state as the
\* iteration found it; an order within max_order never raises it.
C5_OrderExceededImmediate ==
    /\ (order > max_order) <=> (pc = "OrderExceeded")
    /\ pc = "OrderExceeded" =>
          /\ steps = j
          /\ Cur = [r0 |-> was.r0, v0 |-> was.v0, m0 |-> was.m0]
          /\ err = value_error(OrderMsg)

C5_Witness == pc = "OrderExceeded" /\ order = max_order + 1

\* the failure a caller reads off the exception it caught
Classify(e) ==
    IF e.type = "value_error" /\ e.what = OrderMsg THEN "OrderExceeded"
    ELSE IF e.type = "value_error" /\ e.what = IterMsg
    THEN "IterationLimitExceeded"
    ELSE "other"

\* C6: the exception received tells which of the two failures occurred.
C6_ErrorsDistinct ==
    /\ pc \in {"OrderExceeded", "IterationLimitExceeded"} =>
          Classify(err) = pc
    /\ pc \in Running \cup {"returned"} => err = NoErr

C6_Witness == pc = "IterationLimitExceeded" /\ steps >= 1

C8_TablesInRange ==
    /\ pc \in {"assign", "call"} => order >= 1
    /\ pc = "call" => (Size(_x) = order + 1 /\ Size(_u) = order)
    /\ InRange

\* C9 as stated: tightening the tolerance exponents never lowers the order.
C9_OrderMonotone ==
    (ord # NoOrd /\ ord.pc = "done" /\ ord.abs2 <= ord.abs
                 /\ ord.rel2 <= ord.rel) => ord.o2 >= ord.o1

\* C9 amended: tightening the tolerance exponents never lowers the order as
\* long as the same tolerance (absolute or relative) is selected before and
\* after the tightening.
C9_OrderMonotoneSameRegime ==
    (ord # NoOrd /\ ord.pc = "done" /\ ord.abs2 <= ord.abs
                 /\ ord.rel2 <= ord.rel
                 /\ (AbsRegime(ord.xm, ord.abs, ord.rel)
                        <=> AbsRegime(ord.xm, ord.abs2, ord.rel2)))
        => ord.o2 >= ord.o1

C9_Witness ==
    /\ ord # NoOrd
    /\ ord.pc = "done"
    /\ ord.abs2 < ord.abs
    /\ ord.rel2 < ord.rel
    /\ AbsRegime(ord.xm, ord.abs, ord.rel)
    /\ AbsRegime(ord.xm, ord.abs2, ord.rel2)
    /\ ord.o2 > ord.o1

\* C10: right after the order selection of any iteration, xm is the largest
\* magnitude among the seven components of the current state, eps_m is the
\* absolute tolerance if relative_tol * xm < absolute_tol and the relative
\* one otherwise, and order is the least integer that is at least
\* 1 - 0.5 * ln(eps_m); it is 13 for eps_m = 1e-10.
C10_OrderFromCurrentState ==
    pc \in {"assign", "call", "OrderExceeded"} =>
        LET comps == {Abs(r0[k]) : k \in 1..3} \cup {Abs(v0[k]) : k \in 1..3}
                        \cup {Abs(m0)}
            ea == log10tolerance
            er == log10rtolerance
        IN  /\ xm \in comps
            /\ \A c \in comps : c <= xm
            /\ eps_m \in {ea, er}
            /\ (er >= ea /\ xm * Pow10(er - ea) < Unit) => eps_m = ea
            /\ (er >= ea /\ xm * Pow10(er - ea) >= Unit) => eps_m = er
            /\ (er < ea /\ xm < Unit * Pow10(ea - er)) => eps_m = ea
            /\ (er < ea /\ xm >= Unit * Pow10(ea - er)) => eps_m = er
            /\ (order - 1) * Mega >= -eps_m * HalfLn10
            /\ (order - 2) * Mega < -eps_m * HalfLn10
            /\ eps_m = -10 => order = 13

C10_Witness ==
    /\ pc = "assign"
    /\ j >= 1
    /\ Cur # in0
    /\ log10tolerance # log10rtolerance
    /\ eps_m = log10rtolerance

----------------------------------------------------------------------------
(* Mass flow and what the caller has after the call *)

\* both tolerance exponents select an order of at least 1, so that the step
\* function stays inside its tables
OrdersValid ==
    /\ OrderOf(log10tolerance) >= 1
    /\ OrderOf(log10rtolerance) >= 1

\* the states in which was, h and Cur are the two ends of the last step
StepTaken == steps >= 1 /\ pc \in {"for", "select", "after", "returned",
                                    "IterationLimitExceeded"}

\* -|thrust| / veff: the mass flow of the equations of motion
MassRate == FDiv(-SqrtT(thrust), veff)

C13_LastStepExposed ==
    (OrdersValid /\ pc = "returned" /\ steps >= 1) => t0 = h

\* C14: after a call that took steps and ended with the iteration limit, the
\* duration argument holds the time for which the state was calculated last.
C14_TimeReturned ==
    (pc = "IterationLimitExceeded" /\ steps >= 1) => t0 = elapsed

----------------------------------------------------------------------------
(* The generator of propagate_taylor_J2_step (lines 46-146), one table     *)
(* entry at a time                                                         *)

\* the highest order for which the generator is stepped
GenOrder == 3

\* lines 47-53 on tables as assign() leaves them
GenTables(r, v, m, N) ==
    [x |-> [Assign(N + 1, dumb) EXCEPT ![0] = StateRow(r, v, m)],
     u |-> Assign(N, dumb2)]

\* gen.k is the slot of u[n] that is computed next, 34 when row n is full;
\* gen.wu and gen.wx are the entries of u and the rows of x written so far
InitGen ==
    /\ PropIdle
    /\ ord = NoOrd
    /\ \E s \in InStates, T \in InThrusts, j2 \in InJ2, N \in 1..GenOrder :
          gen = [T |-> T, j2 |-> j2, N |-> N,
                 x |-> GenTables(s[1], s[2], s[3], N).x,
                 u |-> GenTables(s[1], s[2], s[3], N).u,
                 n |-> 0, k |-> 0, wu |-> {}, wx |-> {0}]
    /\ other = NoCtx
    /\ turn = NoTurn
    /\ leg = NoLeg
    /\ lrun = NoRun
    /\ kep = NoKep

\* one statement of lines 61-135: u[n][k] gets its value
GenSlot ==
    /\ gen.n < gen.N
    /\ gen.k <= 33
    /\ gen' = [gen EXCEPT
                 !.u[gen.n][gen.k] = Slot(gen.x, gen.u, gen.n, gen.k, gen.T,
                                          Unit, gen.j2),
                 !.k = gen.k + 1,
                 !.wu = gen.wu \cup {<<gen.n, gen.k>>}]
    /\ UNCHANGED <<propvars, ord, other, turn, leg, lrun, kep>>

\* lines 138-145: x[n + 1] from row n of u, and n++
GenX ==
    /\ gen.n < gen.N
    /\ gen.k = 34
    /\ gen' = [gen EXCEPT
                 !.x[gen.n + 1] = XRow(gen.u, gen.n, gen.T, Unit),
                 !.n = gen.n + 1,
                 !.k = 0,
                 !.wx = gen.wx \cup {gen.n + 1}]
    /\ UNCHANGED <<propvars, ord, other, turn, leg, lrun, kep>>

NextGen == GenSlot \/ GenX

SpecGen == InitGen /\ [][NextGen]_vars

\* the slots filled by +=, which start from the zero that assign() put there
Accumulates(n, k) ==
    \/ k \in {7, 8, 9, 14, 15, 16, 21, 23, 25, 28, 29, 30}
    \/ n > 0 /\ k \in {12, 17, 19}

\* the tables with every entry outside keep replaced by the value P
MaskU(u, keep, P) ==
    [i \in DOMAIN u |->
        [s \in 0..33 |-> IF <<i, s>> \in keep THEN u[i][s] ELSE P]]

MaskX(x, keep, P) ==
    [i \in DOMAIN x |-> IF i \in keep THEN x[i] ELSE [s \in 0..6 |-> P]]

Marks == {333, -777}

\* the entries the next statement may read: those written in this step, and
\* its own target when it accumulates
Readable ==
    gen.wu \cup (IF Accumulates(gen.n, gen.k) THEN {<<gen.n, gen.k>>}
                                              ELSE {})

\* C11: while the generator computes order n, the value it gives to u[n][k]
\* depends only on entries of x and u that were written before in this step
\* (the target of a += starts from the zero of assign()), all of them of
\* order <= n, and x[n + 1] depends on row n of u only: replacing every
\* other entry of the tables by an arbitrary value changes nothing.
C11_Causal ==
    /\ \A e \in gen.wu : e[1] <= gen.n
    /\ \A i \in gen.wx : i <= gen.n
    /\ (gen.n < gen.N /\ gen.k <= 33) =>
          \A P \in Marks :
             Slot(MaskX(gen.x, gen.wx, P), MaskU(gen.u, Readable, P), gen.n,
                  gen.k, gen.T, Unit, gen.j2)
               = Slot(gen.x, gen.u, gen.n, gen.k, gen.T, Unit, gen.j2)
    /\ (gen.n < gen.N /\ gen.k = 34) =>
          \A P \in Marks :
             XRow(MaskU(gen.u, {gen.n} \X (0..33), P), gen.n, gen.T, Unit)
               = XRow(gen.u, gen.n, gen.T, Unit)

\* order 2 is being computed, the J2 product of slot 23 is next and the
\* rows below hold non-zero values
C11_Witness ==
    /\ gen.n = 2 /\ gen.k = 23
    /\ gen.j2 # 0
    /\ gen.u[1][22] # 0 /\ gen.u[2][22] # 0
    /\ gen.x[2][3] # 0

----------------------------------------------------------------------------
(* Two calls of propagate_taylor_J2 in one process.  Everything a call     *)
(* works on is an argument or a local (lines 227-247), so the call that    *)
(* is not running is one record of those, and a switch exchanges it with   *)
(* the running one.                                                        *)

\* the arguments and locals of the running call
Ctx ==
    [r0 |-> r0,
     v0 |-> v0,
     m0 |-> m0,
     thrust |-> thrust,
     t0 |-> t0,
     mu |-> mu,
     veff |-> veff,
     J2RG2 |-> J2RG2,
     log10tolerance |-> log10tolerance,
     log10rtolerance |-> log10rtolerance,
     max_iter |-> max_iter,
     max_order |-> max_order,
     x |-> _x,
     u |-> _u,
     step |-> step,
     xm |-> xm,
     eps_m |-> eps_m,
     j |-> j,
     order |-> order,
     h |-> h,
     pc |-> pc,
     err |-> err,
     in0 |-> in0,
     elapsed |-> elapsed,
     steps |-> steps,
     acc |-> acc,
     was |-> was]

\* a call at its entry (lines 233-247 and j = 0)
FreshCall(s, T, t, tl, mi, mo, j2) ==
    [r0 |-> s[1], v0 |-> s[2], m0 |-> s[3], thrust |-> T, t0 |-> t,
     mu |-> Unit, veff |-> Unit, J2RG2 |-> j2,
     log10tolerance |-> tl[1], log10rtolerance |-> tl[2],
     max_iter |-> mi, max_order |-> mo,
     x |-> Assign(0, dumb), u |-> Assign(0, dumb2), step |-> t,
     xm |-> 0, eps_m |-> 0, j |-> 0, order |-> 0, h |-> 0, pc |-> "for",
     err |-> NoErr,
     in0 |-> [r0 |-> s[1], v0 |-> s[2], m0 |-> s[3]],
     elapsed |-> 0, steps |-> 0,
     acc |-> [x |-> {}, u |-> {}, xsize |-> 0, usize |-> 0],
     was |-> [r0 |-> s[1], v0 |-> s[2], m0 |-> s[3], step |-> t]]

TwoStates == { <<<<800, 0, 600>>, <<0, 900, 300>>, 1500>>,
               <<<<0, -700, 200>>, <<800, 0, -100>>, 900>> }

TwoIters == { 1, MaxIter }

\* the calls of the pair: orders 4, three steps needed for the duration
TwoCalls ==
    { FreshCall(s, <<100, 0, 50>>, 300, <<-2, -2>>, mi, mo, 50) :
        s \in TwoStates, mi \in TwoIters, mo \in InMaxOrders }

InitTwo ==
    /\ \E c \in TwoCalls :
          /\ r0 = c.r0
          /\ v0 = c.v0
          /\ m0 = c.m0
          /\ thrust = c.thrust
          /\ t0 = c.t0
          /\ mu = c.mu
          /\ veff = c.veff
          /\ J2RG2 = c.J2RG2
          /\ log10tolerance = c.log10tolerance
          /\ log10rtolerance = c.log10rtolerance
          /\ max_iter = c.max_iter
          /\ max_order = c.max_order
          /\ _x = c.x
          /\ _u = c.u
          /\ step = c.step
          /\ xm = c.xm
          /\ eps_m = c.eps_m
          /\ j = c.j
          /\ order = c.order
          /\ h = c.h
          /\ pc = c.pc
          /\ err = c.err
          /\ in0 = c.in0
          /\ elapsed = c.elapsed
          /\ steps = c.steps
          /\ acc = c.acc
          /\ was = c.was
    /\ other \in TwoCalls
    /\ turn = [id |-> 1, mid |-> 0]
    /\ ord = NoOrd
    /\ gen = NoGen
    /\ leg = NoLeg
    /\ lrun = NoRun
    /\ kep = NoKep

\* the number of switches, so far, that left a call between two of its
\* statements; counted up to 2
Mid(c) == IF c.pc \in Running /\ c # FreshCall(<<c.in0.r0, c.in0.v0,
                 c.in0.m0>>, c.thrust, c.t0, <<c.log10tolerance,
                 c.log10rtolerance>>, c.max_iter, c.max_order, c.J2RG2)
          THEN Min(turn.mid + 1, 2) ELSE turn.mid

\* variant of Switch: the coefficient tables are shared by the two calls
Switch_SharedTables ==
    /\ other # NoCtx
    /\ other' = Ctx
    /\ turn' = [id |-> 3 - turn.id, mid |-> Mid(Ctx)]
    /\ r0' = other.r0
    /\ v0' = other.v0
    /\ m0' = other.m0
    /\ thrust' = other.thrust
    /\ t0' = other.t0
    /\ mu' = other.mu
    /\ veff' = other.veff
    /\ J2RG2' = other.J2RG2
    /\ log10tolerance' = other.log10tolerance
    /\ log10rtolerance' = other.log10rtolerance
    /\ max_iter' = other.max_iter
    /\ max_order' = other.max_order
    /\ UNCHANGED _x
    /\ UNCHANGED _u
    /\ step' = other.step
    /\ xm' = other.xm
    /\ eps_m' = other.eps_m
    /\ j' = other.j
    /\ order' = other.order
    /\ h' = other.h
    /\ pc' = other.pc
    /\ err' = other.err
    /\ in0' = other.in0
    /\ elapsed' = other.elapsed
    /\ steps' = other.steps
    /\ acc' = other.acc
    /\ was' = other.was
    /\ UNCHANGED <<ord, gen, leg, lrun, kep>>

\* the process leaves the running call where it is and continues the other
Switch ==
    /\ other # NoCtx
    /\ other' = Ctx
    /\ turn' = [id |-> 3 - turn.id, mid |-> Mid(Ctx)]
    /\ r0' = other.r0
    /\ v0' = other.v0
    /\ m0' = other.m0
    /\ thrust' = other.thrust
    /\ t0' = other.t0
    /\ mu' = other.mu
    /\ veff' = other.veff
    /\ J2RG2' = other.J2RG2
    /\ log10tolerance' = other.log10tolerance
    /\ log10rtolerance' = other.log10rtolerance
    /\ max_iter' = other.max_iter
    /\ max_order' = other.max_order
    /\ _x' = other.x
    /\ _u' = other.u
    /\ step' = other.step
    /\ xm' = other.xm
    /\ eps_m' = other.eps_m
    /\ j' = other.j
    /\ order' = other.order
    /\ h' = other.h
    /\ pc' = other.pc
    /\ err' = other.err
    /\ in0' = other.in0
    /\ elapsed' = other.elapsed
    /\ steps' = other.steps
    /\ acc' = other.acc
    /\ was' = other.was
    /\ UNCHANGED <<ord, gen, leg, lrun, kep>>

\* the calls of the pair select order 4, so the step function is entered
\* with order >= 1 only
NextTwo == ForTest \/ SelectOrder \/ AssignTables \/ Step \/ AfterLoop
              \/ Switch

SpecTwo == InitTwo /\ [][NextTwo]_vars

\* what a call leaves to its caller: the way it ended and the state
Outcome(c) == [pc |-> c.pc, err |-> c.err, r0 |-> c.r0, v0 |-> c.v0,
               m0 |-> c.m0]

\* propagate_taylor_J2 as a function of its arguments (lines 243-273, for
\* orders >= 1): a is the call at its entry, c the state and the remaining
\* duration, jj the loop counter
Ended(a, c, jj) ==
    IF LimitHit(jj, a.max_iter)
    THEN [pc |-> "IterationLimitExceeded", err |-> value_error(IterMsg),
          r0 |-> c.r0, v0 |-> c.v0, m0 |-> c.m0]
    ELSE [pc |-> "returned", err |-> NoErr, r0 |-> c.r0, v0 |-> c.v0,
          m0 |-> c.m0]

RECURSIVE Loop(_, _, _)
RECURSIVE LoopStep(_, _, _, _, _)
RECURSIVE LoopNext(_, _, _, _)

LoopNext(a, c, jj, res) ==
    IF Abs(res.step) >= Abs(c.step)
    THEN Ended(a, res, jj)
    ELSE Loop(a, [r0 |-> res.r0, v0 |-> res.v0, m0 |-> res.m0,
                  step |-> c.step - res.step], jj + 1)

LoopStep(a, c, jj, xmm, N) ==
    IF Exceeds(N, a.max_order)
    THEN [pc |-> "OrderExceeded", err |-> value_error(OrderMsg),
          r0 |-> c.r0, v0 |-> c.v0, m0 |-> c.m0]
    ELSE LoopNext(a, c, jj,
             propagate_taylor_J2_step(c.r0, c.v0, c.m0, c.step, N, a.thrust,
                 a.mu, a.veff, a.J2RG2, xmm, a.log10tolerance,
                 a.log10rtolerance, Assign(N + 1, dumb), Assign(N, dumb2)))

LoopOrder(a, c, jj, xmm) ==
    LoopStep(a, c, jj, xmm,
             SelOrder(xmm, a.log10tolerance, a.log10rtolerance))

Loop(a, c, jj) ==
    IF jj < a.max_iter
    THEN LoopOrder(a, c, jj, Norm(StateRow(c.r0, c.v0, c.m0)))
    ELSE Ended(a, c, jj)

Alone(a) == Loop(a, [r0 |-> a.in0.r0, v0 |-> a.in0.v0, m0 |-> a.in0.m0,
                     step |-> a.t0], 0)

\* the arguments of a call, with the state as passed in
ArgsOf(c) == <<c.in0, c.thrust, c.t0, c.mu, c.veff, c.J2RG2,
               c.log10tolerance, c.log10rtolerance, c.max_iter,
               c.max_order>>

AllZero(tab) == \A i \in DOMAIN tab : \A k \in DOMAIN tab[i] : tab[i][k] = 0

\* C15: when the step function is called the tables have order + 1 and
\* order rows and every entry is zero, whatever steps and calls came
\* before; two finished calls with equal arguments have the same final
\* state and the same outcome.
C15_NoStateRetained ==
    /\ pc = "call" => /\ Size(_x) = order + 1 /\ AllZero(_x)
                      /\ Size(_u) = order /\ AllZero(_u)
    /\ (pc \in Finished /\ other.pc \in Finished
          /\ ArgsOf(Ctx) = ArgsOf(other)) => Outcome(Ctx) = Outcome(other)

\* the second of two calls with equal arguments ended after three steps,
\* the first having ended before the second began
C15_Witness ==
    /\ pc = "returned" /\ steps >= 3
    /\ other.pc = "returned"
    /\ ArgsOf(Ctx) = ArgsOf(other)
    /\ turn = [id |-> 2, mid |-> 0]

\* C16: however the statements of two calls are interleaved, each call ends
\* with the final state and the outcome it has when it runs alone.
C16_Interleaved ==
    /\ pc \in Finished => Outcome(Ctx) = Alone(Ctx)
    /\ other.pc \in Finished => Outcome(other) = Alone(other)

\* both calls took steps between steps of the other and have ended
C16_Witness ==
    /\ pc \in Finished /\ steps >= 2
    /\ other.pc \in Finished /\ other.steps >= 2
    /\ turn.mid = 2
    /\ ArgsOf(Ctx) # ArgsOf(other)

----------------------------------------------------------------------------
(* sims_flanagan::leg_s (sims_flanagan/leg_s.hpp): construction, set_leg   *)
(* and compute_states.                                                     *)
(*                                                                         *)
(* An epoch is modelled by its two readings mjd2000() and mjd(), a         *)
(* spacecraft state by a name, and the state that propagate_taylor_s       *)
(* leaves by the state it started from and the throttles applied since.    *)

\* the highest number of segments of the legs explored
MaxSeg == 3

\* epochs: the two readings differ by the fixed offset of the two scales
InEpochs == { [mjd2000 |-> d, mjd |-> d + 51544] : d \in 0..1 }

epoch0 == [mjd2000 |-> 0, mjd |-> 51544]

InMus == { -Unit, 0, Unit }

InMasses == { -Unit, 0, Unit }

\* the doubles between throttles_start and throttles_end
InThrottles(len, base) == [q \in 0..(len - 1) |-> base + q]

InBases == { 0, 100 }

\* lengths of the throttle sequence passed to a leg of n segments: as the
\* leg needs it, not a multiple of 3, and for one segment more or less
InLens(n) == { 3 * n, 3 * n + 1, 3 * n + 2, 3 * n + 3 }
                 \cup (IF n > 0 THEN { 3 * n - 3 } ELSE {})

\* the number of set_leg calls explored on one leg
MaxCalls == 2

\* a default-constructed throttle, and throttle(epoch(0.), epoch(1.), tmp)
throttle0 == [start |-> 0, end |-> 0, value |-> <<0, 0, 0>>]

throttle(a, b, tmp) == [start |-> a, end |-> b, value |-> tmp]

\* one default-constructed entry of m_states
state0 == [t |-> "0", x |-> "0", thrust |-> "0"]

\* leg_s(n_seg, c, alpha, tol), lines 98-102
leg_s(n_seg) ==
    [m_ti |-> epoch0, m_xi |-> "default",
     m_throttles |-> Assign(n_seg, throttle0),
     m_tf |-> epoch0, m_xf |-> "default", m_sf |-> 0,
     m_sc |-> [mass |-> 0], m_mu |-> 0,
     m_states |-> Assign(n_seg + 2, state0),
     m_ceq |-> [fwd |-> <<>>, back |-> <<>>]]

\* no member function has run yet
Idle(nd) ==
    [op |-> "none", pc |-> "idle", ndebug |-> nd, calls |-> 0, args |-> <<>>,
     before |-> <<>>, err |-> NoErr, i |-> 0, recs |-> <<>>,
     fwd |-> <<>>, back |-> <<>>, props |-> <<>>]

InitLeg ==
    /\ PropIdle
    /\ ord = NoOrd
    /\ gen = NoGen
    /\ other = NoCtx
    /\ turn = NoTurn
    /\ \E n_seg \in 0..MaxSeg : leg = leg_s(n_seg)
    /\ \E nd \in BOOLEAN : lrun = Idle(nd)
    /\ kep = NoKep

\* variant of SetLegError: the gravity parameter is rejected only when negative
SetLegError_MuSign(len, n, epoch_i, epoch_f, mu_, mass) ==
    IF len % 3 # 0
    THEN "The length of the throttles list must be a multiple of 3"
    ELSE IF len \div 3 # n
    THEN "The number of segments in the leg do not match the length of the supplied throttle sequence"
    ELSE IF epoch_i.mjd2000 >= epoch_f.mjd2000
    THEN "Final epoch must be strictly after initial epoch"
    ELSE IF mu_ < 0
    THEN "Gravity parameter must be larger than zero (forgot to set it?)"
    ELSE IF epoch_i.mjd >= epoch_f.mjd
    THEN "Final epoch must be after the initial epoch"
    ELSE IF mass = 0
    THEN "Spacecraft mass must be larger than zero (forgot to set it?)"
    ELSE ""

\* the checks of set_leg in their order, lines 136-155: the message of the
\* first that fails, "" when none does
SetLegError(len, n, epoch_i, epoch_f, mu_, mass) ==
    IF len % 3 # 0
    THEN "The length of the throttles list must be a multiple of 3"
    ELSE IF len \div 3 # n
    THEN "The number of segments in the leg do not match the length of the supplied throttle sequence"
    ELSE IF epoch_i.mjd2000 >= epoch_f.mjd2000
    THEN "Final epoch must be strictly after initial epoch"
    ELSE IF mu_ <= 0
    THEN "Gravity parameter must be larger than zero (forgot to set it?)"
    ELSE IF epoch_i.mjd >= epoch_f.mjd
    THEN "Final epoch must be after the initial epoch"
    ELSE IF mass = 0
    THEN "Spacecraft mass must be larger than zero (forgot to set it?)"
    ELSE ""

\* lines 158-172: the members after a set_leg that passed the checks
Filled(l, a) ==
    [l EXCEPT !.m_mu = a.mu_,
              !.m_sc = [mass |-> a.mass],
              !.m_ti = a.epoch_i,
              !.m_xi = a.state_i,
              !.m_tf = a.epoch_f,
              !.m_xf = a.state_f,
              !.m_sf = a.sf,
              !.m_throttles =
                  [i \in DOMAIN l.m_throttles |->
                      throttle(0, 1, <<a.thr[3 * i], a.thr[3 * i + 1],
                                       a.thr[3 * i + 2]>>)]]

\* set_leg, lines 128-173, called with the arguments a
set_leg(a) ==
    LET what == SetLegError(a.len, Size(leg.m_throttles), a.epoch_i,
                            a.epoch_f, a.mu_, a.mass)
    IN  IF what # ""
        THEN /\ leg' = leg
             /\ lrun' = [lrun EXCEPT !.op = "set_leg", !.pc = "thrown",
                                     !.calls = lrun.calls + 1,
                                     !.args = a, !.before = leg,
                                     !.err = value_error(what)]
        ELSE /\ leg' = Filled(leg, a)
             /\ lrun' = [lrun EXCEPT !.op = "set_leg", !.pc = "done",
                                     !.calls = lrun.calls + 1,
                                     !.args = a, !.before = leg,
                                     !.err = NoErr]

SetLeg ==
    /\ lrun.op \in {"none", "set_leg"}
    /\ lrun.calls < MaxCalls
    /\ \E len \in InLens(Size(leg.m_throttles)), base \in InBases,
          ei \in InEpochs, ef \in InEpochs, mu_ \in InMus,
          mass \in InMasses :
          set_leg([len |-> len, thr |-> InThrottles(len, base),
                   epoch_i |-> ei, state_i |-> "xi", epoch_f |-> ef,
                   state_f |-> "xf", sf |-> Unit, mu_ |-> mu_,
                   mass |-> mass])
    /\ UNCHANGED <<propvars, ord, gen, other, turn, kep>>

\* record_states, lines 473-482, in a call of compute_states: with the
\* assertion compiled in, a call that fails it ends the process
Recorded(idx, row) ==
    IF ~lrun.ndebug /\ ~(idx + 1 < Size(leg.m_states))
    THEN leg
    ELSE [leg EXCEPT !.m_states[idx] = row]

Asserted(idx) == lrun.ndebug \/ idx + 1 < Size(leg.m_states)

n_seg_fwd == (Size(leg.m_throttles) + 1) \div 2

n_seg_back == Size(leg.m_throttles) \div 2

\* lines 396-413: entry of compute_states and the record of the initial state
CSInitial ==
    /\ lrun.pc \in {"idle", "done", "thrown"}
    /\ lrun.op \in {"none", "set_leg"}
    /\ leg' = Recorded(0, [t |-> "0", x |-> <<leg.m_xi>>, thrust |-> "0"])
    /\ lrun' = [lrun EXCEPT !.op = "compute_states",
                            !.pc = IF Asserted(0) THEN "fwd" ELSE "aborted",
                            !.args = <<>>, !.before = leg, !.err = NoErr,
                            !.i = 0, !.recs = <<0>>,
                            !.fwd = <<leg.m_xi>>, !.back = <<>>,
                            !.props = <<>>]
    /\ UNCHANGED <<propvars, ord, gen, other, turn, kep>>

\* ds = m_sf / n_seg, lines 323 and 404; read where a segment is propagated
ds == FDiv(leg.m_sf, Size(leg.m_throttles) * Unit)

\* the index record_states gets after forward segment i, line 425
FwdIdx(i) == i + 1

\* variant of BackThrottle: the backward loop reads m_throttles[i]
BackThrottle_Same(n, i) == i

\* m_throttles.size() - i - 1, lines 353 and 439
BackThrottle(n, i) == n - i - 1

\* variant of BackIdx: the index of the throttle in place of the state's
BackIdx_Low(n, i) == n - i - 1

\* the index record_states gets after backward segment i, line 446
BackIdx(n, i) == n - i

\* the arguments of one propagate_taylor_s call that matter here
Propagated(th, s) == [th |-> th, ds |-> s]

\* lines 416-426: one forward segment; propagate_taylor_s returns or throws
CSForward ==
    /\ lrun.op = "compute_states" /\ lrun.pc = "fwd"
    /\ lrun.i < n_seg_fwd
    /\ \/ /\ lrun' = [lrun EXCEPT !.pc = "thrown",
                         !.err = value_error(
                  "Could not compute the states ... check your data!!!")]
          /\ leg' = leg
       \/ /\ leg' = Recorded(FwdIdx(lrun.i),
                       [t |-> "tfwd", x |-> Append(lrun.fwd, lrun.i),
                        thrust |-> lrun.i])
          /\ lrun' = [lrun EXCEPT
                        !.pc = IF Asserted(FwdIdx(lrun.i)) THEN "fwd"
                                                           ELSE "aborted",
                        !.i = IF Asserted(FwdIdx(lrun.i)) THEN lrun.i + 1
                                                          ELSE lrun.i,
                        !.recs = Append(lrun.recs, FwdIdx(lrun.i)),
                        !.fwd = Append(lrun.fwd, lrun.i),
                        !.props = Append(lrun.props,
                                         Propagated(lrun.i, ds))]
    /\ UNCHANGED <<propvars, ord, gen, other, turn, kep>>

\* lines 428-434: the record of the final state, after the forward loop
CSFinal ==
    /\ lrun.op = "compute_states" /\ lrun.pc = "fwd"
    /\ ~(lrun.i < n_seg_fwd)
    /\ leg' = Recorded(Size(leg.m_throttles) + 1,
                  [t |-> "dt", x |-> <<leg.m_xf>>, thrust |-> "0"])
    /\ lrun' = [lrun EXCEPT
                  !.pc = IF Asserted(Size(leg.m_throttles) + 1)
                         THEN "back" ELSE "aborted",
                  !.i = 0,
                  !.recs = Append(lrun.recs, Size(leg.m_throttles) + 1),
                  !.back = <<leg.m_xf>>]
    /\ UNCHANGED <<propvars, ord, gen, other, turn, kep>>

\* lines 437-447: one backward segment
CSBackward ==
    /\ lrun.op = "compute_states" /\ lrun.pc = "back"
    /\ lrun.i < n_seg_back
    /\ LET th  == BackThrottle(Size(leg.m_throttles), lrun.i)
           idx == BackIdx(Size(leg.m_throttles), lrun.i)
       IN  \/ /\ lrun' = [lrun EXCEPT !.pc = "thrown",
                             !.err = value_error(
                      "Could not compute the states ... check your data!!!")]
              /\ leg' = leg
           \/ /\ leg' = Recorded(idx, [t |-> "dt + tback",
                                       x |-> Append(lrun.back, th),
                                       thrust |-> th])
              /\ lrun' = [lrun EXCEPT
                            !.pc = IF Asserted(idx) THEN "back"
                                                    ELSE "aborted",
                            !.i = IF Asserted(idx) THEN lrun.i + 1
                                                   ELSE lrun.i,
                            !.recs = Append(lrun.recs, idx),
                            !.back = Append(lrun.back, th),
                            !.props = Append(lrun.props,
                                             Propagated(th, -ds))]
    /\ UNCHANGED <<propvars, ord, gen, other, turn, kep>>

\* lines 448-449: return m_states
CSReturn ==
    /\ lrun.op = "compute_states" /\ lrun.pc = "back"
    /\ ~(lrun.i < n_seg_back)
    /\ lrun' = [lrun EXCEPT !.pc = "returned"]
    /\ UNCHANGED <<propvars, ord, gen, other, turn, leg, kep>>

\* what propagate_taylor_s throws is passed on by compute_mismatch_con
propagate_error == [type |-> "propagate_taylor_s", what |-> ""]

\* lines 316-331: entry of compute_mismatch_con and the initial state
CMInitial ==
    /\ lrun.pc \in {"idle", "done", "thrown"}
    /\ lrun.op \in {"none", "set_leg"}
    /\ lrun' = [lrun EXCEPT !.op = "compute_mismatch_con", !.pc = "fwd",
                            !.args = <<>>, !.before = leg, !.err = NoErr,
                            !.i = 0, !.recs = <<>>,
                            !.fwd = <<leg.m_xi>>, !.back = <<>>,
                            !.props = <<>>]
    /\ UNCHANGED <<propvars, ord, gen, other, turn, leg, kep>>

\* lines 334-339: one forward segment
CMForward ==
    /\ lrun.op = "compute_mismatch_con" /\ lrun.pc = "fwd"
    /\ lrun.i < n_seg_fwd
    /\ \/ lrun' = [lrun EXCEPT !.pc = "thrown", !.err = propagate_error]
       \/ lrun' = [lrun EXCEPT
                     !.i = lrun.i + 1,
                     !.fwd = Append(lrun.fwd, lrun.i),
                     !.props = Append(lrun.props, Propagated(lrun.i, ds))]
    /\ UNCHANGED <<propvars, ord, gen, other, turn, leg, kep>>

\* lines 341-345: the final state, after the forward loop
CMFinal ==
    /\ lrun.op = "compute_mismatch_con" /\ lrun.pc = "fwd"
    /\ ~(lrun.i < n_seg_fwd)
    /\ lrun' = [lrun EXCEPT !.pc = "back", !.i = 0,
                            !.back = <<leg.m_xf>>]
    /\ UNCHANGED <<propvars, ord, gen, other, turn, leg, kep>>

\* lines 348-353: one backward segment
CMBackward ==
    /\ lrun.op = "compute_mismatch_con" /\ lrun.pc = "back"
    /\ lrun.i < n_seg_back
    /\ \/ lrun' = [lrun EXCEPT !.pc = "thrown", !.err = propagate_error]
       \/ lrun' = [lrun EXCEPT
                     !.i = lrun.i + 1,
                     !.back = Append(lrun.back,
                                  BackThrottle(Size(leg.m_throttles), lrun.i)),
                     !.props = Append(lrun.props,
                         Propagated(BackThrottle(Size(leg.m_throttles),
                                                 lrun.i), -ds))]
    /\ UNCHANGED <<propvars, ord, gen, other, turn, leg, kep>>

\* lines 356-364: the mismatch of the two ends goes to m_ceq
CMReturn ==
    /\ lrun.op = "compute_mismatch_con" /\ lrun.pc = "back"
    /\ ~(lrun.i < n_seg_back)
    /\ leg' = [leg EXCEPT !.m_ceq = [fwd |-> lrun.fwd, back |-> lrun.back]]
    /\ lrun' = [lrun EXCEPT !.pc = "returned"]
    /\ UNCHANGED <<propvars, ord, gen, other, turn, kep>>

NextLeg == SetLeg \/ CSInitial \/ CSForward \/ CSFinal \/ CSBackward
              \/ CSReturn \/ CMInitial \/ CMForward \/ CMFinal
              \/ CMBackward \/ CMReturn

SpecLeg == InitLeg /\ [][NextLeg]_vars

\* C18: a set_leg whose throttle length is not a multiple of 3, or is not 3
\* times the number of segments, or whose initial epoch is not before the
\* final one, or whose mu_ is not positive, throws value_error; and a set_leg
\* that throws leaves every member of the leg as it was.
C18_RejectedUnchanged ==
    lrun.op = "set_leg" =>
        /\ (\/ lrun.args.len % 3 # 0
            \/ lrun.args.len \div 3 # Size(lrun.before.m_throttles)
            \/ lrun.args.epoch_i.mjd2000 >= lrun.args.epoch_f.mjd2000
            \/ lrun.args.mu_ <= 0)
              => (lrun.pc = "thrown" /\ lrun.err.type = "value_error")
        /\ lrun.pc = "thrown" => leg = lrun.before

\* a leg that was set before rejects a call, for its mu_ alone, that would
\* have changed its members
C18_Witness ==
    /\ lrun.op = "set_leg" /\ lrun.pc = "thrown"
    /\ lrun.args.mu_ = 0
    /\ lrun.args.len = 3 * Size(leg.m_throttles)
    /\ lrun.args.epoch_i.mjd2000 < lrun.args.epoch_f.mjd2000
    /\ leg.m_mu > 0
    /\ Size(leg.m_throttles) >= 2
    /\ Filled(leg, lrun.args) # leg

\* C19: a set_leg whose spacecraft has a mass <= 0 throws value_error and
\* does not set the leg.
C19_NonPositiveMassRejected ==
    (lrun.op = "set_leg" /\ lrun.args.mass <= 0) =>
        /\ lrun.pc = "thrown" /\ lrun.err.type = "value_error"
        /\ leg = lrun.before

\* C20: every record_states call of compute_states has idx + 1 below the
\* size of m_states.
C20_RecordAssertion ==
    lrun.op = "compute_states" =>
        \A q \in 1..Len(lrun.recs) : lrun.recs[q] + 1 < Size(leg.m_states)

----------------------------------------------------------------------------
(* The states compute_states records and the throttles the two             *)
(* computations propagate                                                  *)

\* the numbers a, a + 1, ..., b, and a, a - 1, ..., b
Up(a, b) == [q \in 1..(b - a + 1) |-> a + q - 1]

Down(a, b) == [q \in 1..(a - b + 1) |-> a - q + 1]

Segments(n, s) ==
    [q \in 1..n |->
        IF q <= (n + 1) \div 2 THEN Propagated(q - 1, s)
        ELSE Propagated(n - (q - (n + 1) \div 2), -s)]

\* C28: n_seg_fwd + n_seg_back = n_seg.  In compute_states and in
\* compute_mismatch_con the segments propagated so far are the first of:
\* throttles 0..n_seg_fwd-1 with +ds from the initial state, then throttles
\* n_seg-1 down to n_seg_fwd with -ds from the final state; a computation
\* that returns has propagated all of them, each throttle once.
C28_EveryThrottleOnce ==
    /\ n_seg_fwd + n_seg_back = Size(leg.m_throttles)
    /\ lrun.op \in {"compute_states", "compute_mismatch_con"} =>
          /\ Len(lrun.props) <= Size(leg.m_throttles)
          /\ \A q \in 1..Len(lrun.props) :
                lrun.props[q] = Segments(Size(leg.m_throttles), ds)[q]
          /\ lrun.pc = "returned" =>
                /\ Len(lrun.props) = Size(leg.m_throttles)
                /\ \A k \in DOMAIN leg.m_throttles :
                      Cardinality({q \in 1..Len(lrun.props) :
                                      lrun.props[q].th = k}) = 1
                /\ lrun.fwd = <<leg.m_xi>> \o Up(0, n_seg_fwd - 1)
                /\ lrun.back = <<leg.m_xf>>
                      \o Down(Size(leg.m_throttles) - 1, n_seg_fwd)

\* compute_mismatch_con returned on a set leg of three segments
C28_Witness ==
    /\ lrun.op = "compute_mismatch_con" /\ lrun.pc = "returned"
    /\ Size(leg.m_throttles) = 3
    /\ leg.m_sf > 0
    /\ lrun.props[3] = Propagated(2, -ds)
    /\ leg.m_ceq = [fwd |-> <<"xi", 0, 1>>, back |-> <<"xf", 2>>]

----------------------------------------------------------------------------
(* The coefficients of position, velocity and mass                         *)

\* v / (n + 1) and the product by the rounded 1. / (n + 1) differ by the
\* rounding of the reciprocal and of the product only
NearQuotient(c, v, n) ==
    Abs(c * (n + 1) - v) * Unit <= (n + 1) * (Abs(v) + Unit)

\* C23: every row x[n + 1] the generator has written holds, in 0..2, the
\* velocity coefficients x[n][3..5] multiplied by 1. / (n + 1), and in 3..5
\* the acceleration components u[n][31..33] multiplied by 1. / (n + 1); both
\* are the quotient by n + 1 up to the rounding of the reciprocal.
C23_CoefficientsFromDerivatives ==
    \A i \in gen.wx \ {0} : \A k \in 0..2 :
        /\ gen.x[i][k] = FMul(FDiv(Unit, i * Unit), gen.x[i - 1][k + 3])
        /\ gen.x[i][k + 3] = FMul(FDiv(Unit, i * Unit), gen.u[i - 1][k + 31])
        /\ NearQuotient(gen.x[i][k], gen.x[i - 1][k + 3], i - 1)
        /\ NearQuotient(gen.x[i][k + 3], gen.u[i - 1][k + 31], i - 1)

\* the generator has written x[3] from non-zero velocity coefficients and
\* accelerations of order 2
C23_Witness ==
    /\ gen.n = 3 /\ 3 \in gen.wx
    /\ gen.x[2][3] # 0 /\ gen.x[3][0] # 0
    /\ gen.u[2][31] # 0 /\ gen.x[3][3] # 0

\* the truncated series of the mass component, summed as lines 181-190 sum
\* position and velocity
RECURSIVE MassSeries(_, _, _, _, _, _)
MassSeries(m, x, jj, N, steppow, st) ==
    IF jj > N THEN m
    ELSE MassSeries(m + FMul(x[jj][6], steppow), x, jj + 1, N,
                    FMul(steppow, st), st)

\* C24: in the tables of the step just taken x[1][6] is -|thrust|/veff and
\* x[k][6] is 0 for every k in 2..order, and the mass after the step, which
\* the code gets from the first-order term alone, is the sum of the whole
\* truncated series of the mass component.
C24_MassSeriesIsFirstOrder ==
    (OrdersValid /\ StepTaken) =>
        /\ Size(_x) >= 2
        /\ _x[0][6] = was.m0
        /\ _x[1][6] = MassRate
        /\ \A k \in 2..(Size(_x) - 1) : _x[k][6] = 0
        /\ m0 = MassSeries(_x[0][6], _x, 1, Size(_x) - 1, h, h)

\* a step of order 3 or more with thrust, of non-zero length
C24_Witness ==
    /\ OrdersValid /\ StepTaken
    /\ thrust # <<0, 0, 0>>
    /\ Size(_x) >= 4
    /\ h # 0 /\ m0 # was.m0

----------------------------------------------------------------------------
(* The tolerance regime of one iteration                                   *)

\* the radius of the absolute regime and of the relative regime for the
\* tables x of order N and the norm xmm
RadiusAbs(x, N) ==
    Min(PowInv(Ratio(Unit, Norm(x[N])), N),
        PowInv(Ratio(Unit, Norm(x[N - 1])), N - 1))

RadiusRel(x, N, xmm) ==
    Min(PowInv(Ratio(xmm, Norm(x[N])), N),
        PowInv(Ratio(xmm, Norm(x[N - 1])), N - 1))

\* the step that lines 175-177 make of a radius for the remaining duration
FromRadius(rho, hh) ==
    IF Abs(FDiv(rho, E2)) > Abs(hh) THEN hh
    ELSE IF hh < 0 THEN -FDiv(rho, E2) ELSE FDiv(rho, E2)

\* C25: after a step, the norm xm is that of the state before the step, the
\* tolerance eps_m of the order selection is the absolute one exactly when
\* relative_tol * xm < absolute_tol, and the step taken comes from the
\* radius of that same regime (from 1/xm_n and 1/xm_n1 when absolute, from
\* xm/xm_n and xm/xm_n1 when relative) divided by e^2, signed and limited
\* as the remaining duration requires.
C25_SameRegime ==
    (OrdersValid /\ StepTaken) =>
        /\ xm = Norm(StateRow(was.r0, was.v0, was.m0))
        /\ eps_m = (IF AbsRegime(xm, log10tolerance, log10rtolerance)
                    THEN log10tolerance ELSE log10rtolerance)
        /\ Size(_x) - 1 = OrderOf(eps_m)
        /\ (log10tolerance # log10rtolerance /\ eps_m = log10tolerance) =>
              h = FromRadius(RadiusAbs(_x, Size(_x) - 1), was.step)
        /\ (log10tolerance # log10rtolerance /\ eps_m = log10rtolerance) =>
              h = FromRadius(RadiusRel(_x, Size(_x) - 1, xm), was.step)
        /\ log10tolerance = log10rtolerance =>
              h = FromRadius(IF xm < Unit
                             THEN RadiusAbs(_x, Size(_x) - 1)
                             ELSE RadiusRel(_x, Size(_x) - 1, xm),
                             was.step)

\* a step in the relative regime whose length the radius decided, where the
\* radius of the absolute regime would have given another length
C25_Witness ==
    /\ OrdersValid /\ StepTaken
    /\ log10tolerance # log10rtolerance /\ eps_m = log10rtolerance
    /\ Abs(h) < Abs(was.step)
    /\ h # FromRadius(RadiusAbs(_x, Size(_x) - 1), was.step)

----------------------------------------------------------------------------
(* What a failed call leaves in the caller's state                         *)

\* C26: a call that fails before a step was completed leaves position,
\* velocity and mass as they were passed: OrderExceeded in the first
\* iteration, and IterationLimitExceeded with max_iter <= 0, which is how
\* every call with max_iter <= 0 ends, whatever the duration.
C26_FailureBeforeStepUnchanged ==
    /\ (pc = "OrderExceeded" /\ j = 0) => (steps = 0 /\ Cur = in0)
    /\ (pc \in Finished /\ max_iter <= 0) =>
          (pc = "IterationLimitExceeded" /\ steps = 0 /\ Cur = in0)
    /\ (pc \in {"OrderExceeded", "IterationLimitExceeded"} /\ steps = 0) =>
          Cur = in0

\* a call with max_iter = 0 and duration 0 has raised IterationLimitExceeded
C26_Witness ==
    /\ pc = "IterationLimitExceeded"
    /\ max_iter = 0 /\ t0 = 0
    /\ thrust # <<0, 0, 0>>
    /\ Cur = in0

\* the state and the remaining duration after k iterations of lines 251-271
\* that all passed the order check, from the state c
RECURSIVE Applied(_, _)
RECURSIVE AppliedStep(_, _, _)
RECURSIVE AppliedNext(_, _, _)

AppliedNext(c, k, res) ==
    Applied([r0 |-> res.r0, v0 |-> res.v0, m0 |-> res.m0,
             step |-> c.step - res.step], k - 1)

AppliedStep(c, k, xmm) ==
    AppliedNext(c, k,
        propagate_taylor_J2_step(c.r0, c.v0, c.m0, c.step,
            SelOrder(xmm, log10tolerance, log10rtolerance), thrust, mu,
            veff, J2RG2, xmm, log10tolerance, log10rtolerance,
            Assign(SelOrder(xmm, log10tolerance, log10rtolerance) + 1, dumb),
            Assign(SelOrder(xmm, log10tolerance, log10rtolerance), dumb2)))

Applied(c, k) ==
    IF k <= 0 THEN c
    ELSE AppliedStep(c, k, Norm(StateRow(c.r0, c.v0, c.m0)))

\* the caller's state and the remaining duration, now and at entry
Held == [r0 |-> r0, v0 |-> v0, m0 |-> m0, step |-> step]

Passed == [r0 |-> in0.r0, v0 |-> in0.v0, m0 |-> in0.m0, step |-> t0]

\* C27: a failure is not rolled back.  IterationLimitExceeded with
\* max_iter >= 1 is raised after exactly max_iter steps, the elapsed time is
\* their sum, the remaining duration is not zero, and the caller's state is
\* the result of those steps; OrderExceeded in iteration k > 1 (j = k - 1)
\* leaves the result of the k - 1 steps taken.
C27_FailuresNotRolledBack ==
    /\ (pc = "IterationLimitExceeded" /\ max_iter >= 1) =>
          /\ steps = max_iter /\ j = max_iter
          /\ elapsed + step = t0
          /\ step # 0
          /\ OrdersValid => Held = Applied(Passed, max_iter)
    /\ (pc = "OrderExceeded" /\ j >= 1) =>
          /\ steps = j
          /\ elapsed + step = t0
          /\ OrdersValid => Held = Applied(Passed, j)

\* the iteration limit was hit after two steps or more that moved the state
C27_Witness ==
    /\ pc = "IterationLimitExceeded"
    /\ OrdersValid
    /\ max_iter >= 2
    /\ elapsed # 0
    /\ Cur # in0
    /\ r0 # was.r0

----------------------------------------------------------------------------
(* planet::keplerian and planet::mpcorb: the elements, the mean motion and *)
(* the cached Cartesian state                                              *)

\* the elements a, e, i of the planets explored (the three angles left are
\* carried along unchanged by every function and are not modelled)
KepElements ==
    [a : { -Unit, 0, Unit, 2 * Unit }, e : { -100, 1, 500, Unit },
     i : { 0, 500 }]

\* keplerian::default_elements, line 42
default_elements == [a |-> Unit, e |-> 100, i |-> 100]

\* gravity parameters of the central body, and reference epochs in mjd2000
KepMus == { Unit, 3 * Unit }

ASTRO_MU_SUN == 2 * Unit

KepDays == { 0, 1 }

\* the value of a double that is not a number
NaN == -1

\* sqrt(mu_central_body / pow(a, 3)), lines 66, 93 and 146
mean_motion(mu_, a) ==
    IF a = 0 THEN Inf
    ELSE IF a < 0 THEN NaN
    ELSE Sqrt(FDiv(mu_, FMul(FMul(a, a), a)))

\* the position and velocity that par2ic gives for the elements el and the
\* gravity parameter mu_, line 70
par2ic(el, mu_) == [el |-> el, mu |-> mu_]

\* the check of the constructor from elements, lines 60-65
ElementsError(el) ==
    IF el.a <= 0
    THEN "The planet semi-major axis needs to a positive number"
    ELSE IF el.e < 0 \/ el.e >= Unit
    THEN "The planet eccentricity needs to be in [0,1)"
    ELSE ""

\* no planet constructed yet
NoPlanet ==
    [pc |-> "none", op |-> "none", err |-> NoErr,
     m_keplerian_elements |-> default_elements, m_mean_motion |-> 0,
     m_ref_mjd2000 |-> 0, mu_central_body |-> 0,
     m_rv |-> par2ic(default_elements, 0), eph |-> <<>>]

InitKep ==
    /\ PropIdle
    /\ ord = NoOrd
    /\ gen = NoGen
    /\ other = NoCtx
    /\ turn = NoTurn
    /\ leg = NoLeg
    /\ lrun = NoRun
    /\ kep = NoPlanet

\* the members after keplerian(ref_epoch, elements, mu_central_body, ...),
\* lines 55-71
keplerian(day, el, mu_) ==
    IF ElementsError(el) # ""
    THEN [NoPlanet EXCEPT !.pc = "thrown", !.op = "keplerian",
                          !.err = value_error(ElementsError(el))]
    ELSE [pc |-> "ready", op |-> "keplerian", err |-> NoErr,
          m_keplerian_elements |-> el,
          m_mean_motion |-> mean_motion(mu_, el.a),
          m_ref_mjd2000 |-> day, mu_central_body |-> mu_,
          m_rv |-> par2ic(el, mu_), eph |-> <<>>]

\* keplerian(ref_epoch, elements, ...) called with elements of any value
Construct ==
    /\ kep.pc = "none"
    /\ \E day \in KepDays, el \in KepElements, mu_ \in KepMus :
          kep' = keplerian(day, el, mu_)
    /\ UNCHANGED <<propvars, ord, gen, other, turn, leg, lrun>>

\* keplerian(ref_epoch, r0, v0, ...), lines 86-94: the elements are those
\* that ic2par finds for r0 and v0, which are stored as they come
ConstructFromState ==
    /\ kep.pc = "none"
    /\ \E day \in KepDays, el \in KepElements, mu_ \in KepMus :
          kep' = [pc |-> "ready", op |-> "keplerian(r0, v0)", err |-> NoErr,
                  m_keplerian_elements |-> el,
                  m_mean_motion |-> mean_motion(mu_, el.a),
                  m_ref_mjd2000 |-> day, mu_central_body |-> mu_,
                  m_rv |-> par2ic(el, mu_), eph |-> <<>>]
    /\ UNCHANGED <<propvars, ord, gen, other, turn, leg, lrun>>

\* set_elements, lines 143-147
set_elements(k, el) ==
    [k EXCEPT !.m_keplerian_elements = el,
              !.m_mean_motion = mean_motion(k.mu_central_body, el.a)]

\* set_ref_epoch and set_ref_mjd2000, lines 150-159
set_ref_mjd2000(k, day) == [k EXCEPT !.m_ref_mjd2000 = day]

SetElements ==
    /\ kep.pc = "ready"
    /\ \E el \in KepElements :
          kep' = [set_elements(kep, el) EXCEPT !.op = "set_elements",
                                               !.eph = <<>>]
    /\ UNCHANGED <<propvars, ord, gen, other, turn, leg, lrun>>

SetRefEpoch ==
    /\ kep.pc = "ready"
    /\ \E day \in KepDays :
          kep' = [set_ref_mjd2000(kep, day) EXCEPT !.op = "set_ref_epoch",
                                                   !.eph = <<>>]
    /\ UNCHANGED <<propvars, ord, gen, other, turn, leg, lrun>>

SetRefMjd2000 ==
    /\ kep.pc = "ready"
    /\ \E day \in KepDays :
          kep' = [set_ref_mjd2000(kep, day) EXCEPT !.op = "set_ref_mjd2000",
                                                   !.eph = <<>>]
    /\ UNCHANGED <<propvars, ord, gen, other, turn, leg, lrun>>

\* mpcorb(line): the base is constructed with its default arguments, then
\* the setters of lines 131-137 run.  A field that is not a number makes
\* lexical_cast throw.
MpcorbConstruct ==
    /\ kep.pc = "none"
    /\ \/ kep' = [NoPlanet EXCEPT !.pc = "thrown", !.op = "mpcorb",
                     !.err = [type |-> "bad_lexical_cast", what |-> ""]]
       \/ \E mu_ \in KepMus, el \in KepElements, day \in KepDays :
             kep' = [set_ref_mjd2000(
                        set_elements(
                           [keplerian(0, default_elements, mu_)
                               EXCEPT !.mu_central_body = ASTRO_MU_SUN],
                           el),
                        day)
                     EXCEPT !.op = "mpcorb"]
    /\ UNCHANGED <<propvars, ord, gen, other, turn, leg, lrun>>

\* eph_impl, lines 102-116: which members decide the orbit of the answer
eph_impl(k, mjd2000) ==
    IF k.m_keplerian_elements.e > 1 /\ k.m_keplerian_elements.i > 1
    THEN [branch |-> "par2ic", dt |-> mjd2000 - k.m_ref_mjd2000,
          from |-> par2ic(k.m_keplerian_elements, k.mu_central_body),
          rate |-> k.m_mean_motion]
    ELSE [branch |-> "propagate_lagrangian",
          dt |-> mjd2000 - k.m_ref_mjd2000,
          from |-> k.m_rv, rate |-> k.mu_central_body]

Eph ==
    /\ kep.pc = "ready"
    /\ \E day \in KepDays :
          kep' = [kep EXCEPT !.op = "eph", !.eph = eph_impl(kep, day)]
    /\ UNCHANGED <<propvars, ord, gen, other, turn, leg, lrun>>

NextKep == Construct \/ ConstructFromState \/ MpcorbConstruct
              \/ SetElements \/ SetRefEpoch \/ SetRefMjd2000 \/ Eph

SpecKep == InitKep /\ [][NextKep]_vars

\* C29: a keplerian planet, however it was constructed and whatever
\* set_elements, set_ref_epoch and set_ref_mjd2000 calls followed, has
\* a > 0 and 0 <= e < 1, its mean motion is sqrt(mu_central_body / a^3),
\* and the cached m_r, m_v are the Cartesian state of the stored elements,
\* so that the answer of eph_impl starts from the stored elements in both
\* branches.
C29_ElementsValidAndCached ==
    kep.pc = "ready" =>
        /\ kep.m_keplerian_elements.a > 0
        /\ kep.m_keplerian_elements.e >= 0
        /\ kep.m_keplerian_elements.e < Unit
        /\ kep.m_mean_motion
              = mean_motion(kep.mu_central_body, kep.m_keplerian_elements.a)
        /\ kep.m_rv = par2ic(kep.m_keplerian_elements, kep.mu_central_body)
        /\ kep.eph # <<>> =>
              kep.eph.from
                = par2ic(kep.m_keplerian_elements, kep.mu_central_body)

====
